---- MODULE Spec2Model ----
(***************************************************************************)
(* Model of nats_config_server.py: an HTTP endpoint that provisions a NATS *)
(* account and user through the external tool nsc and returns the user's   *)
(* credentials file.                                                       *)
(*                                                                         *)
(* A request is a connection carrying a query string.  HTTPServer handles  *)
(* one connection at a time, in arrival order; the handler do_GET runs the *)
(* tool invocations one after the other.  Every invocation of nsc is one   *)
(* step of the model; the tool's trust store, the credentials directory    *)
(* and the bus server are the environment the tool acts on.                *)
(***************************************************************************)
EXTENDS Integers, Sequences, FiniteSets, TLC

\* ------------------------------------------------------------------------
\* Bounds of the model
\* ------------------------------------------------------------------------

\* number of connections made to the server in one behaviour
NumRequests == 2

Requests == 1..NumRequests

\* number of calls of user_exists made from outside the request handler
MaxOracleCalls == 1

\* ------------------------------------------------------------------------
\* Configuration (module level constants of the program)
\* ------------------------------------------------------------------------

NATS_SERVER_URL == "nats://your_server:4222"

CREDS_DIR == "./"

\* ------------------------------------------------------------------------
\* Inputs
\* ------------------------------------------------------------------------

\* a query parameter that does not occur in the query string
Missing == "<missing>"

\* query strings sent by clients: the value of account= and of user=
Queries ==
    { [account |-> "acme",  user |-> Missing],
      [account |-> Missing, user |-> "alice"],
      [account |-> "",      user |-> "alice"],
      [account |-> "acme",  user |-> ""],
      [account |-> "acme",  user |-> "alice"],
      [account |-> "acme",  user |-> "bob"],
      [account |-> "beta",  user |-> "alice"] }

\* the account names and the user names that requests carry
AccountNames == { q.account : q \in Queries } \ {Missing, ""}

UserNames == { q.user : q \in Queries } \ {Missing, ""}

\* bytes: line feed, carriage return, the letter A, and 0xE9, which is not
\* valid UTF-8 on its own and is e-acute in latin-1
LF == 10
CR == 13

\* contents the tool may write to a credentials file
Bundles ==
    { <<65, LF>>, <<65, CR, LF>>, <<233, LF>> }

\* the text encoding open() uses when none is given: the locale's, UTF-8 on
\* the platforms the server is run on
LocaleEncoding == "utf-8"

\* trust stores the server may be started on
InitialAccounts == { {}, {"beta"} }

VARIABLES
    startable,    \* whether nsc can be started (it is on the PATH, executable)
    accounts,     \* trust store: names of the accounts
    signingKeys,  \* trust store: account name -> number of signing keys generated
    users,        \* trust store: set of <<account, user>>
    files,        \* credentials directory: path -> bytes
    pushed,       \* bus server: set of accounts whose state was pushed
    backlog,      \* connections accepted by the kernel, not yet handled
    query,        \* request -> its query string
    pc,           \* request -> position of its handler
    creds_path,   \* request -> local variable creds_path of do_GET
    calls,        \* every tool invocation made, in order, with its result
    faulty,       \* whether the tool has failed where it could have succeeded
    response      \* request -> the response sent

vars == <<startable, accounts, signingKeys, users, files, pushed,
          backlog, query, pc, creds_path, calls, faulty, response>>

\* ------------------------------------------------------------------------
\* The external tool nsc, as the program relies on it
\* ------------------------------------------------------------------------

\* what one run of the tool leaves behind: its exit status and the trust
\* store, credentials directory and bus server after it; written is the
\* bytes it wrote to its output file, if it wrote one
Written(rc, acc, sk, us, fs, pu, bs) ==
    [returncode |-> rc, accounts |-> acc, signingKeys |-> sk, users |-> us,
     files |-> fs, pushed |-> pu, written |-> bs]

Proc(rc, acc, sk, us, fs, pu) == Written(rc, acc, sk, us, fs, pu, <<>>)

\* a run that exits with rc and changes nothing
NoEffect(rc) == Proc(rc, accounts, signingKeys, users, files, pushed)

IsDescribeAccount(argv) ==
    Len(argv) = 4 /\ SubSeq(argv, 1, 3) = <<"nsc", "describe", "account">>

IsDescribeUser(argv) ==
    Len(argv) = 6 /\ SubSeq(argv, 1, 4) = <<"nsc", "describe", "user", "--account">>

IsAddAccount(argv) ==
    Len(argv) = 4 /\ SubSeq(argv, 1, 3) = <<"nsc", "add", "account">>

IsGenerateSigningKey(argv) ==
    /\ Len(argv) = 6
    /\ SubSeq(argv, 1, 3) = <<"nsc", "edit", "account">>
    /\ SubSeq(argv, 5, 6) = <<"--sk", "generate">>

IsAddUser(argv) ==
    Len(argv) = 6 /\ SubSeq(argv, 1, 4) = <<"nsc", "add", "user", "--account">>

IsGenerateCreds(argv) ==
    /\ Len(argv) = 9
    /\ SubSeq(argv, 1, 4) = <<"nsc", "generate", "creds", "--account">>
    /\ argv[6] = "--name"
    /\ argv[8] = "--output-file"

IsPush(argv) ==
    /\ Len(argv) = 6
    /\ SubSeq(argv, 1, 3) = <<"nsc", "push", "--account">>
    /\ argv[5] = "-u"

\* The runs of the tool that are not failures of the tool itself: describe
\* exits 0 exactly for an account, or a user, of the store; add account
\* creates an account that is not there and rejects one that is; a signing key is
\* generated for an account of the store; add user creates the user, and a
\* user that is already there is either rejected or accepted again;
\* generate creds writes some bundle to the output file; push brings the
\* account to the bus server.  Anything else is a usage error.
Nominal(argv) ==
    IF IsDescribeAccount(argv) THEN
        { NoEffect(IF argv[4] \in accounts THEN 0 ELSE 1) }
    ELSE IF IsDescribeUser(argv) THEN
        { NoEffect(IF <<argv[5], argv[6]>> \in users THEN 0 ELSE 1) }
    ELSE IF IsAddAccount(argv) THEN
        IF argv[4] \in accounts
        THEN { NoEffect(1) }
        ELSE { Proc(0, accounts \cup {argv[4]}, (argv[4] :> 0) @@ signingKeys,
                    users, files, pushed) }
    ELSE IF IsGenerateSigningKey(argv) THEN
        IF argv[4] \in accounts
        THEN { Proc(0, accounts,
                    [signingKeys EXCEPT ![argv[4]] = signingKeys[argv[4]] + 1],
                    users, files, pushed) }
        ELSE { NoEffect(1) }
    ELSE IF IsAddUser(argv) THEN
        IF argv[5] \notin accounts
        THEN { NoEffect(1) }
        ELSE IF <<argv[5], argv[6]>> \in users
        THEN { NoEffect(0), NoEffect(1) }
        ELSE { Proc(0, accounts, signingKeys,
                    users \cup {<<argv[5], argv[6]>>}, files, pushed) }
    ELSE IF IsGenerateCreds(argv) THEN
        IF <<argv[5], argv[7]>> \in users
        THEN { Written(0, accounts, signingKeys, users,
                       (argv[9] :> b) @@ files, pushed, b) : b \in Bundles }
        ELSE { NoEffect(1) }
    ELSE IF IsPush(argv) THEN
        IF argv[4] \in accounts
        THEN { Proc(0, accounts, signingKeys, users, files,
                    pushed \cup {argv[4]}) }
        ELSE { NoEffect(1) }
    ELSE { NoEffect(1) }

\* every run of the tool: a nominal one, or a failure that changes nothing
nsc(argv) == Nominal(argv) \cup { NoEffect(1) }

\* ------------------------------------------------------------------------
\* run_nsc_command
\* ------------------------------------------------------------------------

\* the exit status of a process that has none
NoStatus == -1

\* subprocess.run(command, capture_output=True, text=True, check=True), which
\* is given no timeout: the tool cannot be started and OSError is raised; or
\* it runs and exits, and with check=True a status other than zero is raised
\* as CalledProcessError, which carries the status; or it runs and never
\* exits, and subprocess.run never returns
subprocess_run(command) ==
    IF ~startable
    THEN { [outcome |-> "not started", exception |-> "OSError",
            status |-> NoStatus, proc |-> NoEffect(1)] }
    ELSE { [outcome |-> "exited",
            exception |-> IF p.returncode # 0 THEN "CalledProcessError" ELSE "",
            status |-> p.returncode, proc |-> p] : p \in nsc(command) }
         \cup { [outcome |-> "never exits", exception |-> "",
                 status |-> NoStatus, proc |-> NoEffect(1)] }

\* a run_nsc_command without its except clause
ReturnedUncaught(x) ==
    [outcome |-> x.outcome, status |-> x.status, proc |-> x.proc,
     hung |-> x.outcome = "never exits",
     raised |-> x.exception # "",
     exception |-> x.exception,
     returncode |-> IF x.exception = "" /\ x.outcome = "exited"
                    THEN x.status ELSE NoStatus]

\* what run_nsc_command does with one outcome x of subprocess.run: it
\* returns result.returncode, or e.returncode of a CalledProcessError; any
\* other exception leaves it (raised), and it does not return while
\* subprocess.run has not (hung)
Returned(x) ==
    [outcome |-> x.outcome, status |-> x.status, proc |-> x.proc,
     hung |-> x.outcome = "never exits",
     raised |-> x.exception \notin {"", "CalledProcessError"},
     exception |-> x.exception,
     returncode |-> IF x.outcome = "exited" THEN x.status ELSE NoStatus]

run_nsc_command(command) == { Returned(x) : x \in subprocess_run(command) }

\* ------------------------------------------------------------------------
\* Reading the credentials file: open(creds_path, 'r').read(), then
\* creds_content.encode('utf-8')
\* ------------------------------------------------------------------------

\* the value of a failed decoding
DecodeError == <<-1>>

IsContinuation(b) == b >= 128 /\ b <= 191

\* bytes -> code points under UTF-8 (sequences of one to three bytes; the
\* four-byte sequences do not occur in Bundles), or DecodeError
RECURSIVE Utf8Decode(_)
Utf8Decode(bs) ==
    IF bs = <<>> THEN <<>>
    ELSE
        LET b == Head(bs)
            n == IF b < 128 THEN 1
                 ELSE IF b >= 194 /\ b <= 223 THEN 2
                 ELSE IF b >= 224 /\ b <= 239 THEN 3
                 ELSE 0
            wellFormed ==
                /\ n > 0
                /\ Len(bs) >= n
                /\ \A i \in 2..n : IsContinuation(bs[i])
                /\ (b = 224 => bs[2] >= 160)
                /\ (b = 237 => bs[2] <= 159)
            cp == IF n = 1 THEN b
                  ELSE IF n = 2 THEN (b - 192) * 64 + (bs[2] - 128)
                  ELSE (b - 224) * 4096 + (bs[2] - 128) * 64 + (bs[3] - 128)
        IN  IF ~wellFormed THEN DecodeError
            ELSE LET rest == Utf8Decode(SubSeq(bs, n + 1, Len(bs)))
                 IN  IF rest = DecodeError THEN DecodeError ELSE <<cp>> \o rest

\* bytes -> code points under the locale's encoding
Decode(bs, enc) == IF enc = "utf-8" THEN Utf8Decode(bs) ELSE bs

\* text mode reads with universal newlines: \r\n and a lone \r become \n
RECURSIVE UniversalNewlines(_)
UniversalNewlines(cs) ==
    IF cs = <<>> THEN <<>>
    ELSE IF Head(cs) = CR THEN
        IF Len(cs) >= 2 /\ cs[2] = LF
        THEN <<LF>> \o UniversalNewlines(SubSeq(cs, 3, Len(cs)))
        ELSE <<LF>> \o UniversalNewlines(Tail(cs))
    ELSE <<Head(cs)>> \o UniversalNewlines(Tail(cs))

\* f.read() of a file opened with mode 'r': the text, or DecodeError
ReadText(bs, enc) ==
    IF Decode(bs, enc) = DecodeError THEN DecodeError
    ELSE UniversalNewlines(Decode(bs, enc))

\* str.encode('utf-8'): code points -> bytes
RECURSIVE Utf8Encode(_)
Utf8Encode(cs) ==
    IF cs = <<>> THEN <<>>
    ELSE
        LET c == Head(cs)
            enc == IF c < 128 THEN <<c>>
                   ELSE IF c < 2048 THEN <<192 + (c \div 64), 128 + (c % 64)>>
                   ELSE <<224 + (c \div 4096), 128 + ((c \div 64) % 64),
                          128 + (c % 64)>>
        IN  enc \o Utf8Encode(Tail(cs))

\* ------------------------------------------------------------------------
\* Argument vectors
\* ------------------------------------------------------------------------

DescribeAccountArgv(account_name) ==
    <<"nsc", "describe", "account", account_name>>

\* user_exists: the list has no comma between "user" and "--account", and
\* adjacent string literals are one string
DescribeUserArgv(account_name, user_name) ==
    <<"nsc", "describe", "user" \o "--account", account_name, user_name>>

AddAccountArgv(account_name) == <<"nsc", "add", "account", account_name>>

SigningKeyArgv(account_name) ==
    <<"nsc", "edit", "account", account_name, "--sk", "generate">>

AddUserArgv(account_name, user_name) ==
    <<"nsc", "add", "user", "--account", account_name, user_name>>

CredsPath(account_name, user_name) ==
    CREDS_DIR \o account_name \o "_" \o user_name \o ".creds"

GenerateCredsArgv(account_name, user_name) ==
    <<"nsc", "generate", "creds", "--account", account_name,
      "--name", user_name, "--output-file", CredsPath(account_name, user_name)>>

PushArgv(account_name) ==
    <<"nsc", "push", "--account", account_name, "-u", NATS_SERVER_URL>>

\* ------------------------------------------------------------------------
\* The server
\* ------------------------------------------------------------------------

NoResponse == [status |-> 0, message |-> "", content |-> <<>>]

Init ==
    /\ startable \in BOOLEAN
    /\ accounts \in InitialAccounts
    /\ signingKeys = [a \in accounts |-> 1]
    /\ users = {}
    /\ files = <<>>
    /\ pushed = {}
    /\ backlog = <<>>
    /\ query = [r \in Requests |-> [account |-> Missing, user |-> Missing]]
    /\ pc = [r \in Requests |-> "unconnected"]
    /\ creds_path = [r \in Requests |-> ""]
    /\ calls = <<>>
    /\ faulty = FALSE
    /\ response = [r \in Requests |-> NoResponse]

\* positions of a handler that is running
Handling ==
    { "account_exists", "create_account", "add_account", "generate_signing_key",
      "create_user", "generate_creds", "push_account", "read_creds", "blocked" }

\* a server that starts a handler for a connection while others run
ServerAlwaysFree == TRUE

\* HTTPServer is not a threading server: serve_forever takes the next
\* connection only when the handler of the previous one has returned
ServerFree == \A r \in Requests : pc[r] \notin Handling

\* urllib.parse.parse_qs: the parameters of the query string, a parameter
\* with a blank value being left out (keep_blank_values is not set)
parse_qs(q) ==
    [k \in { n \in {"account", "user"} : q[n] # Missing /\ q[n] # "" } |-> <<q[k]>>]

\* the local variables account_name and user_name of do_GET
account_name(r) == parse_qs(query[r])["account"][1]

user_name(r) == parse_qs(query[r])["user"][1]

Goto(r, label) == pc' = [pc EXCEPT ![r] = label]

\* self.send_error(code, message), after which do_GET returns
send_error(r, code, message) ==
    /\ response' = [response EXCEPT
                       ![r] = [status |-> code, message |-> message, content |-> <<>>]]
    /\ Goto(r, "done")

\* an except clause that answers and leaves the handler where it was
RaiseWithoutReturn(r, e) ==
    /\ response' = [response EXCEPT
                       ![r] = [status |-> 500,
                               message |-> "Error generating configuration: " \o e,
                               content |-> <<>>]]
    /\ UNCHANGED pc

\* an exception with text e reaches the except clause of do_GET
Raise(r, e) == send_error(r, 500, "Error generating configuration: " \o e)

\* the handler waits in subprocess.run for a process that never exits
Block(r) == Goto(r, "blocked") /\ UNCHANGED response

\* run_nsc_command(command) has the outcome o
Run(r, command, o) ==
    /\ o \in run_nsc_command(command)
    /\ accounts' = o.proc.accounts
    /\ signingKeys' = o.proc.signingKeys
    /\ users' = o.proc.users
    /\ files' = o.proc.files
    /\ pushed' = o.proc.pushed
    /\ calls' = Append(calls, [request |-> r, argv |-> command,
                               outcome |-> o.outcome,
                               status |-> o.status,
                               raised |-> o.raised,
                               returncode |-> o.returncode,
                               written |-> o.proc.written])
    /\ faulty' = (faulty \/ o.outcome # "exited" \/ o.proc \notin Nominal(command))

\* a client connects and sends its request
Connect(r, q) ==
    /\ pc[r] = "unconnected"
    /\ \A s \in Requests : s < r => pc[s] # "unconnected"
    /\ query' = [query EXCEPT ![r] = q]
    /\ backlog' = Append(backlog, r)
    /\ Goto(r, "queued")
    /\ UNCHANGED <<startable, accounts, signingKeys, users, files, pushed,
                   creds_path, calls, faulty, response>>

\* a check that forgets the user parameter
MissingAccountOnly(query_params) == "account" \notin DOMAIN query_params

\* do_GET: 'account' not in query_params or 'user' not in query_params
MissingParameter(query_params) ==
    "account" \notin DOMAIN query_params \/ "user" \notin DOMAIN query_params

\* do_GET: not account_name or not user_name
EmptyParameter(query_params) ==
    query_params["account"][1] = "" \/ query_params["user"][1] = ""

\* the server takes the oldest connection and do_GET checks its parameters;
\* subscripting query_params with a name it lacks raises KeyError
do_GET(r) ==
    /\ ServerFree
    /\ backlog # <<>>
    /\ r = Head(backlog)
    /\ backlog' = Tail(backlog)
    /\ IF MissingParameter(parse_qs(query[r]))
       THEN send_error(r, 400, "Both 'account' and 'user' parameters are required")
       ELSE IF {"account", "user"} \ DOMAIN parse_qs(query[r]) # {}
       THEN Raise(r, "KeyError")
       ELSE IF EmptyParameter(parse_qs(query[r]))
       THEN send_error(r, 400, "Account and user names cannot be empty")
       ELSE Goto(r, "account_exists") /\ UNCHANGED response
    /\ UNCHANGED <<startable, accounts, signingKeys, users, files, pushed,
                   query, creds_path, calls, faulty>>

\* an existence check that reads the exit status the wrong way round
account_exists_inverted(returncode) == returncode # 0

\* account_exists: a zero exit status means the account exists
account_exists(returncode) == returncode = 0

\* do_GET: if not account_exists(account_name): create_account(account_name)
do_GET_account_exists(r) ==
    /\ pc[r] = "account_exists"
    /\ \E o \in run_nsc_command(DescribeAccountArgv(account_name(r))) :
        /\ Run(r, DescribeAccountArgv(account_name(r)), o)
        /\ IF o.hung THEN Block(r)
           ELSE IF o.raised THEN Raise(r, o.exception)
           ELSE IF ~account_exists(o.returncode)
           THEN Goto(r, "create_account") /\ UNCHANGED response
           ELSE Goto(r, "create_user") /\ UNCHANGED response
    /\ UNCHANGED <<startable, backlog, query, creds_path>>

\* a create_account that adds the account without a check of its own
create_account_unchecked(r) ==
    /\ pc[r] = "create_account"
    /\ Goto(r, "add_account")
    /\ UNCHANGED <<startable, accounts, signingKeys, users, files, pushed,
                   backlog, query, creds_path, calls, faulty, response>>

\* create_account: if not account_exists(account_name): ...
create_account(r) ==
    /\ pc[r] = "create_account"
    /\ \E o \in run_nsc_command(DescribeAccountArgv(account_name(r))) :
        /\ Run(r, DescribeAccountArgv(account_name(r)), o)
        /\ IF o.hung THEN Block(r)
           ELSE IF o.raised THEN Raise(r, o.exception)
           ELSE IF ~account_exists(o.returncode)
           THEN Goto(r, "add_account") /\ UNCHANGED response
           ELSE Goto(r, "create_user") /\ UNCHANGED response
    /\ UNCHANGED <<startable, backlog, query, creds_path>>

\* an add account whose exit status is not looked at
AddAccountFailedIgnored(returncode) == FALSE

AddAccountFailed(returncode) == returncode # 0

\* create_account: nsc add account
add_account(r) ==
    /\ pc[r] = "add_account"
    /\ \E o \in run_nsc_command(AddAccountArgv(account_name(r))) :
        /\ Run(r, AddAccountArgv(account_name(r)), o)
        /\ IF o.hung THEN Block(r)
           ELSE IF o.raised THEN Raise(r, o.exception)
           ELSE IF AddAccountFailed(o.returncode)
           THEN Raise(r, "Failed to create account")
           ELSE Goto(r, "generate_signing_key") /\ UNCHANGED response
    /\ UNCHANGED <<startable, backlog, query, creds_path>>

SigningKeyFailed(returncode) == returncode # 0

\* create_account: nsc edit account --sk generate
generate_signing_key(r) ==
    /\ pc[r] = "generate_signing_key"
    /\ \E o \in run_nsc_command(SigningKeyArgv(account_name(r))) :
        /\ Run(r, SigningKeyArgv(account_name(r)), o)
        /\ IF o.hung THEN Block(r)
           ELSE IF o.raised THEN Raise(r, o.exception)
           ELSE IF SigningKeyFailed(o.returncode)
           THEN Raise(r, "Failed to generate signing key")
           ELSE Goto(r, "create_user") /\ UNCHANGED response
    /\ UNCHANGED <<startable, backlog, query, creds_path>>

\* a create_user that does not look at the returncode
CreateUserFailedIgnored(returncode) == FALSE

CreateUserFailed(returncode) == returncode # 0

create_user(r) ==
    /\ pc[r] = "create_user"
    /\ \E o \in run_nsc_command(AddUserArgv(account_name(r), user_name(r))) :
        /\ Run(r, AddUserArgv(account_name(r), user_name(r)), o)
        /\ IF o.hung THEN Block(r)
           ELSE IF o.raised THEN Raise(r, o.exception)
           ELSE IF CreateUserFailed(o.returncode)
           THEN Raise(r, "Failed to create user")
           ELSE Goto(r, "generate_creds") /\ UNCHANGED response
    /\ UNCHANGED <<startable, backlog, query, creds_path>>

GenerateCredsFailed(returncode) == returncode # 0

generate_creds(r) ==
    /\ pc[r] = "generate_creds"
    /\ \E o \in run_nsc_command(GenerateCredsArgv(account_name(r), user_name(r))) :
        /\ Run(r, GenerateCredsArgv(account_name(r), user_name(r)), o)
        /\ IF o.hung THEN Block(r) /\ UNCHANGED creds_path
           ELSE IF o.raised THEN Raise(r, o.exception) /\ UNCHANGED creds_path
           ELSE IF GenerateCredsFailed(o.returncode)
           THEN Raise(r, "Failed to generate credentials") /\ UNCHANGED creds_path
           ELSE /\ creds_path' = [creds_path EXCEPT
                                     ![r] = CredsPath(account_name(r), user_name(r))]
                /\ Goto(r, "push_account")
                /\ UNCHANGED response
    /\ UNCHANGED <<startable, backlog, query>>

\* a push whose exit status is not looked at
PushFailedIgnored(returncode) == FALSE

PushFailed(returncode) == returncode # 0

\* a push_account that, when the push fails, deletes the user and the
\* credentials file the request made
push_account_undoing(r) ==
    /\ pc[r] = "push_account"
    /\ \E o \in run_nsc_command(PushArgv(account_name(r))) :
        /\ calls' = Append(calls, [request |-> r,
                                   argv |-> PushArgv(account_name(r)),
                                   outcome |-> o.outcome,
                                   status |-> o.status,
                                   raised |-> o.raised,
                                   returncode |-> o.returncode,
                                   written |-> o.proc.written])
        /\ faulty' = (faulty \/ o.outcome # "exited"
                             \/ o.proc \notin Nominal(PushArgv(account_name(r))))
        /\ accounts' = o.proc.accounts
        /\ signingKeys' = o.proc.signingKeys
        /\ pushed' = o.proc.pushed
        /\ IF o.hung THEN
               /\ Block(r)
               /\ users' = o.proc.users /\ files' = o.proc.files
           ELSE IF o.raised \/ PushFailed(o.returncode) THEN
               /\ Raise(r, IF o.raised THEN o.exception
                           ELSE "Failed to push account to NATS server")
               /\ users' = o.proc.users \ {<<account_name(r), user_name(r)>>}
               /\ files' = [f \in DOMAIN o.proc.files \ {creds_path[r]} |->
                               o.proc.files[f]]
           ELSE
               /\ Goto(r, "read_creds") /\ UNCHANGED response
               /\ users' = o.proc.users /\ files' = o.proc.files
    /\ UNCHANGED <<startable, backlog, query, creds_path>>

push_account(r) ==
    /\ pc[r] = "push_account"
    /\ \E o \in run_nsc_command(PushArgv(account_name(r))) :
        /\ Run(r, PushArgv(account_name(r)), o)
        /\ IF o.hung THEN Block(r)
           ELSE IF o.raised THEN Raise(r, o.exception)
           ELSE IF PushFailed(o.returncode)
           THEN Raise(r, "Failed to push account to NATS server")
           ELSE Goto(r, "read_creds") /\ UNCHANGED response
    /\ UNCHANGED <<startable, backlog, query, creds_path>>

\* a write that stops one byte short
BodyCutShort(text) == SubSeq(Utf8Encode(text), 1, Len(Utf8Encode(text)) - 1)

\* the bytes do_GET writes to the client for the text it read
Body(text) == Utf8Encode(text)

\* do_GET: read the credentials file and send it with status 200
read_creds(r) ==
    /\ pc[r] = "read_creds"
    /\ IF creds_path[r] \notin DOMAIN files
       THEN Raise(r, "FileNotFoundError")
       ELSE IF ReadText(files[creds_path[r]], LocaleEncoding) = DecodeError
       THEN Raise(r, "UnicodeDecodeError")
       ELSE /\ response' = [response EXCEPT
                   ![r] = [status |-> 200, message |-> "OK",
                           content |-> Body(ReadText(files[creds_path[r]], LocaleEncoding))]]
            /\ Goto(r, "done")
    /\ UNCHANGED <<startable, accounts, signingKeys, users, files, pushed,
                   backlog, query, creds_path, calls, faulty>>

Next ==
    \/ \E r \in Requests, q \in Queries : Connect(r, q)
    \/ \E r \in Requests : do_GET(r)
    \/ \E r \in Requests : do_GET_account_exists(r)
    \/ \E r \in Requests : create_account(r)
    \/ \E r \in Requests : add_account(r)
    \/ \E r \in Requests : generate_signing_key(r)
    \/ \E r \in Requests : create_user(r)
    \/ \E r \in Requests : generate_creds(r)
    \/ \E r \in Requests : push_account(r)
    \/ \E r \in Requests : read_creds(r)

Spec == Init /\ [][Next]_vars

\* ------------------------------------------------------------------------
\* user_exists, which do_GET does not call
\* ------------------------------------------------------------------------

\* the invocations made from outside the request handler
OracleCalls == { i \in DOMAIN calls : calls[i].request = 0 }

\* a caller of the module calls user_exists(a, u) while no request is being
\* handled, and the call returns (returncode == 0, which the model drops)
user_exists(a, u) ==
    /\ ServerFree
    /\ Cardinality(OracleCalls) < MaxOracleCalls
    /\ \E o \in run_nsc_command(DescribeUserArgv(a, u)) :
        /\ ~o.hung
        /\ Run(0, DescribeUserArgv(a, u), o)
    /\ UNCHANGED <<startable, backlog, query, pc, creds_path, response>>

NextOracle ==
    \/ Next
    \/ \E a \in AccountNames, u \in UserNames : user_exists(a, u)

\* the server together with callers of user_exists
SpecOracle == Init /\ [][NextOracle]_vars

\* ------------------------------------------------------------------------
\* Vocabulary of the properties
\* ------------------------------------------------------------------------

Done(r) == pc[r] = "done"

\* the request passed the parameter checks of do_GET
Validated(r) ==
    /\ pc[r] \notin {"unconnected", "queued"}
    /\ query[r].account \notin {Missing, ""}
    /\ query[r].user \notin {Missing, ""}

\* the positions in calls of the invocations request r made
CallsOf(r) == { i \in DOMAIN calls : calls[i].request = r }

\* the invocations with argument vector argv that request r made
Made(r, argv) ==
    LET made == argv
    IN  { i \in CallsOf(r) : calls[i].argv = made }

\* the tool ran and exited with status zero
Succeeded(c) == c.outcome = "exited" /\ c.status = 0

\* the tool ran and exited with a status other than zero
ExitedNonZero(c) == c.outcome = "exited" /\ c.status # 0

\* the five steps whose failure ends a request
IsStep(argv) ==
    \/ IsAddAccount(argv) \/ IsGenerateSigningKey(argv) \/ IsAddUser(argv)
    \/ IsGenerateCreds(argv) \/ IsPush(argv)

\* the error that names a step
StepError(argv) ==
    IF IsAddAccount(argv) THEN "Failed to create account"
    ELSE IF IsGenerateSigningKey(argv) THEN "Failed to generate signing key"
    ELSE IF IsAddUser(argv) THEN "Failed to create user"
    ELSE IF IsGenerateCreds(argv) THEN "Failed to generate credentials"
    ELSE "Failed to push account to NATS server"

\* ------------------------------------------------------------------------
\* C1
\* ------------------------------------------------------------------------

\* C1: a response with status 200, or with any credential bytes in it, is
\* sent only by a request whose last tool invocation was the push of its own
\* account and exited with status zero.
C1_BundleOnlyAfterPush ==
    \A r \in Requests :
        (response[r].status = 200 \/ response[r].content # <<>>) =>
            /\ Validated(r)
            /\ \E i \in Made(r, PushArgv(account_name(r))) :
                /\ Succeeded(calls[i])
                /\ \A j \in CallsOf(r) : j <= i

\* a request has been answered 200 with its bundle
C1_Witness ==
    \E r \in Requests :
        /\ Done(r)
        /\ response[r].status = 200
        /\ response[r].content # <<>>
        /\ \E i \in CallsOf(r) : IsPush(calls[i].argv) /\ Succeeded(calls[i])

\* ------------------------------------------------------------------------
\* C2
\* ------------------------------------------------------------------------

\* C2: when the invocation of one of the five steps (add account, generate
\* signing key, add user, generate creds, push) exits non-zero, the request
\* makes no invocation after it and is answered 500 with the error that
\* names the step.
C2_FailingStepAborts ==
    \A i \in DOMAIN calls :
        (ExitedNonZero(calls[i]) /\ IsStep(calls[i].argv)) =>
            /\ \A j \in CallsOf(calls[i].request) : j <= i
            /\ Done(calls[i].request)
            /\ response[calls[i].request].status = 500
            /\ response[calls[i].request].message =
                   "Error generating configuration: " \o StepError(calls[i].argv)
            /\ response[calls[i].request].content = <<>>

\* add account has failed in a request that has ended, and push has failed
\* in another
C2_Witness ==
    /\ \E i \in DOMAIN calls :
        /\ IsAddAccount(calls[i].argv) /\ ExitedNonZero(calls[i])
        /\ Done(calls[i].request)
    /\ \E i \in DOMAIN calls :
        /\ IsPush(calls[i].argv) /\ ExitedNonZero(calls[i])
        /\ Done(calls[i].request)

\* ------------------------------------------------------------------------
\* C3
\* ------------------------------------------------------------------------

\* the requests that name account a
Naming(a) == { r \in Requests : pc[r] # "unconnected" /\ query[r].account = a }

\* the invocations of add account a, and of edit account a --sk generate
AddAccountCalls(a) == { i \in DOMAIN calls : calls[i].argv = AddAccountArgv(a) }

SigningKeyCalls(a) == { i \in DOMAIN calls : calls[i].argv = SigningKeyArgv(a) }

\* account a was found absent by an existence check
FoundAbsent(a) ==
    \E i \in DOMAIN calls :
        calls[i].argv = DescribeAccountArgv(a) /\ ExitedNonZero(calls[i])

\* C3: with a tool that does not fail, requests that name the same account
\* and are pending together make at most one add account and at most one
\* signing-key invocation for it, and exactly one of each once the account
\* was found absent and the requests have ended.
C3_OneCreationPerAccount ==
    ~faulty =>
        \A a \in AccountNames :
            /\ Cardinality(AddAccountCalls(a)) <= 1
            /\ Cardinality(SigningKeyCalls(a)) <= 1
            /\ (FoundAbsent(a) /\ \A r \in Naming(a) : Done(r)) =>
                   /\ Cardinality(AddAccountCalls(a)) = 1
                   /\ Cardinality(SigningKeyCalls(a)) = 1

\* a request has created the account acme and generated its signing key and
\* is still being handled, while a second request for acme waits
C3_Witness ==
    /\ ~faulty
    /\ Cardinality(AddAccountCalls("acme")) = 1
    /\ Cardinality(SigningKeyCalls("acme")) = 1
    /\ \E r, s \in Naming("acme") :
        /\ r # s
        /\ pc[r] = "create_user"
        /\ pc[s] = "queued"
        /\ \E i \in CallsOf(r) :
            calls[i].argv = SigningKeyArgv("acme") /\ Succeeded(calls[i])

\* ------------------------------------------------------------------------
\* C4
\* ------------------------------------------------------------------------

\* the accounts that an add account invocation of the server created
CreatedHere == { a \in AccountNames : \E i \in AddAccountCalls(a) : Succeeded(calls[i]) }

\* C4: whenever no request is being handled, every account the server
\* created has had signing-key generation succeed exactly once.
C4_SigningKeyExactlyOnce ==
    ServerFree =>
        \A a \in CreatedHere :
            Cardinality({ i \in SigningKeyCalls(a) : Succeeded(calls[i]) }) = 1

\* ------------------------------------------------------------------------
\* C5
\* ------------------------------------------------------------------------

\* the first existence check of request r found its account absent
LackedAccount(r) ==
    /\ CallsOf(r) # {}
    /\ \E i \in CallsOf(r) :
        /\ \A j \in CallsOf(r) : i <= j
        /\ calls[i].argv = DescribeAccountArgv(account_name(r))
        /\ ExitedNonZero(calls[i])

\* request r was handled before request s
Earlier(r, s) ==
    /\ Done(r) /\ Validated(r) /\ CallsOf(r) # {}
    /\ \A i \in CallsOf(r), j \in CallsOf(s) : i < j

\* C5: with a tool that does not fail, a request that finds its account
\* absent makes exactly one add account, one signing-key and one add user
\* invocation, and a later request for the same account with another user
\* makes no add account and no signing-key invocation.
C5_FirstCreatesSecondReuses ==
    ~faulty =>
        \A r \in Requests :
            (Done(r) /\ Validated(r)) =>
                /\ LackedAccount(r) =>
                    /\ Cardinality(Made(r, AddAccountArgv(account_name(r)))) = 1
                    /\ Cardinality(Made(r, SigningKeyArgv(account_name(r)))) = 1
                    /\ Cardinality(Made(r, AddUserArgv(account_name(r), user_name(r)))) = 1
                /\ \A f \in Requests \ {r} :
                    ( /\ Earlier(f, r)
                      /\ account_name(f) = account_name(r)
                      /\ user_name(f) # user_name(r) ) =>
                        { i \in CallsOf(r) :
                            IsAddAccount(calls[i].argv)
                            \/ IsGenerateSigningKey(calls[i].argv) } = {}

\* acme/alice was provisioned on a store without acme, then acme/bob
C5_Witness ==
    /\ ~faulty
    /\ \E f, r \in Requests :
        /\ Done(r) /\ Validated(r)
        /\ Earlier(f, r)
        /\ LackedAccount(f)
        /\ account_name(f) = account_name(r)
        /\ user_name(f) # user_name(r)
        /\ Cardinality(Made(f, AddAccountArgv(account_name(f)))) = 1
        /\ response[f].status = 200
        /\ response[r].status = 200

\* ------------------------------------------------------------------------
\* C6
\* ------------------------------------------------------------------------

\* the argument vectors of the invocations of request r, in order
RECURSIVE ArgvsFrom(_, _)
ArgvsFrom(r, i) ==
    IF i > Len(calls) THEN <<>>
    ELSE IF calls[i].request = r THEN <<calls[i].argv>> \o ArgvsFrom(r, i + 1)
    ELSE ArgvsFrom(r, i + 1)

Argvs(r) == ArgvsFrom(r, 1)

\* request r for acme/alice ran alone on a store that was empty, with a tool
\* that did not fail and wrote a bundle that is text, and has ended
EndToEnd(r) ==
    /\ Done(r)
    /\ query[r] = [account |-> "acme", user |-> "alice"]
    /\ ~faulty
    /\ \A i \in DOMAIN calls : calls[i].request = r
    /\ accounts = {"acme"}
    /\ "acme" \in CreatedHere
    /\ \A i \in DOMAIN calls :
        calls[i].written # <<>> => Decode(calls[i].written, LocaleEncoding) # DecodeError

\* C6 as stated: six invocations, describe account once, then a 200 response.
C6_SixInvocations ==
    \A r \in Requests :
        EndToEnd(r) =>
            /\ Argvs(r) = << DescribeAccountArgv("acme"),
                             AddAccountArgv("acme"),
                             SigningKeyArgv("acme"),
                             AddUserArgv("acme", "alice"),
                             GenerateCredsArgv("acme", "alice"),
                             PushArgv("acme") >>
            /\ response[r].status = 200

\* C6, amended: seven invocations (describe account is invoked twice, by
\* do_GET and again by create_account, then add account, edit account --sk
\* generate, add user, generate creds, push), then a 200 response.
C6_SevenInvocations ==
    \A r \in Requests :
        EndToEnd(r) =>
            /\ Argvs(r) = << DescribeAccountArgv("acme"),
                             DescribeAccountArgv("acme"),
                             AddAccountArgv("acme"),
                             SigningKeyArgv("acme"),
                             AddUserArgv("acme", "alice"),
                             GenerateCredsArgv("acme", "alice"),
                             PushArgv("acme") >>
            /\ response[r].status = 200

\* the end-to-end request has been answered
C6_Witness == \E r \in Requests : EndToEnd(r) /\ response[r].status = 200

\* ------------------------------------------------------------------------
\* C7
\* ------------------------------------------------------------------------

\* the account or the user parameter is missing or empty
InvalidQuery(q) == q.account \in {Missing, ""} \/ q.user \in {Missing, ""}

\* a request with an invalid query that the server has taken up has ended
\* with status 400 and has made no tool invocation
C7_Rejected ==
    \A r \in Requests :
        (pc[r] \notin {"unconnected", "queued"} /\ InvalidQuery(query[r])) =>
            /\ Done(r)
            /\ response[r].status = 400
            /\ response[r].content = <<>>
            /\ CallsOf(r) = {}

\* the step that takes up a request with an invalid query leaves the trust
\* store, the credential files and the bus server as they are
C7_Frame ==
    \A r \in Requests :
        (pc[r] = "queued" /\ pc'[r] # "queued" /\ InvalidQuery(query[r])) =>
            UNCHANGED <<accounts, signingKeys, users, files, pushed, calls>>

\* C7: a request whose account or user parameter is missing or empty ends
\* with a 400 response, makes no tool invocation and leaves the trust store
\* and the credential files unchanged.
C7_InvalidRequestRejected == []C7_Rejected /\ [][C7_Frame]_vars

\* a request with a missing or empty parameter has been answered 400 after
\* an earlier request had filled the trust store and written a bundle
C7_Witness ==
    /\ accounts # {} /\ users # {} /\ DOMAIN files # {}
    /\ \E r \in Requests :
        /\ Done(r)
        /\ InvalidQuery(query[r])
        /\ response[r].status = 400

\* ------------------------------------------------------------------------
\* C8
\* ------------------------------------------------------------------------

\* the bundle that request r's generate creds wrote
BundleOf(r) ==
    { calls[i].written : i \in { j \in CallsOf(r) : IsGenerateCreds(calls[j].argv) } }
        \ { <<>> }

\* a tool invocation of request r could not be started, a step of it exited
\* non-zero, or the bundle it generated cannot be read as text
Failed(r) ==
    \/ \E i \in CallsOf(r) :
        calls[i].raised \/ (ExitedNonZero(calls[i]) /\ IsStep(calls[i].argv))
    \/ \E b \in BundleOf(r) : Decode(b, LocaleEncoding) = DecodeError

C9_ReadAfterGenerate ==
    \A r \in Requests :
        (Done(r) /\ response[r].status = 200) => response[r].content \in BundleOf(r)

\* ------------------------------------------------------------------------
\* C10
\* ------------------------------------------------------------------------

\* C10: while a request for one account is being handled, the server can
\* take up the next request when it names another account.
C10_DistinctAccountsIndependent ==
    \A r, s \in Requests :
        ( /\ pc[r] \in Handling
          /\ pc[s] = "queued"
          /\ backlog # <<>>
          /\ s = Head(backlog)
          /\ ~InvalidQuery(query[s])
          /\ query[s].account # query[r].account ) =>
            ENABLED do_GET(s)

\* ------------------------------------------------------------------------
\* C11
\* ------------------------------------------------------------------------

\* request r has been answered
Answered(r) == response[r].status # 0

\* C11: a request that has been answered, with success or with an error of
\* any step, no longer occupies the server; and when every other request
\* has been answered or has not been taken up, the oldest waiting request
\* can be taken up.
C11_ExclusionReleased ==
    /\ \A r \in Requests : Answered(r) => Done(r)
    /\ \A s \in Requests :
        ( /\ pc[s] = "queued"
          /\ backlog # <<>>
          /\ s = Head(backlog)
          /\ \A r \in Requests \ {s} :
                Answered(r) \/ pc[r] \in {"unconnected", "queued"} ) =>
            ENABLED do_GET(s)

\* a request for an account has failed at one of its steps, and a later
\* request for the same account has run its steps and ended with 200
C11_Witness ==
    \E r, s \in Requests :
        /\ Earlier(r, s)
        /\ response[r].status = 500
        /\ \E i \in CallsOf(r) : ExitedNonZero(calls[i]) /\ IsStep(calls[i].argv)
        /\ account_name(r) = query[s].account
        /\ Done(s)
        /\ response[s].status = 200

\* ------------------------------------------------------------------------
\* C12
\* ------------------------------------------------------------------------

\* a step of the handler of request r
HandlerStep(r) ==
    \/ do_GET_account_exists(r) \/ create_account(r) \/ add_account(r)
    \/ generate_signing_key(r) \/ create_user(r) \/ generate_creds(r)
    \/ push_account(r) \/ read_creds(r)

\* C12: no tool invocation holds its request for ever: a request that is
\* being handled always has a next step (a process that does not exit is
\* ended by a timeout and its step fails), so it ends with a response and
\* the requests behind it are taken up.
C12_InvocationsBounded ==
    \A r \in Requests : pc[r] \in Handling => ENABLED HandlerStep(r)

\* ------------------------------------------------------------------------
\* C13
\* ------------------------------------------------------------------------

\* argv has the shape of one of the seven operations of the command table
TableShape(argv) ==
    \/ IsDescribeAccount(argv)
    \/ IsDescribeUser(argv)
    \/ IsAddAccount(argv)
    \/ IsGenerateSigningKey(argv)
    \/ IsAddUser(argv)
    \/ IsGenerateCreds(argv)
    \/ (IsPush(argv) /\ argv[6] = NATS_SERVER_URL)

\* C13: every invocation has the argument shape of its operation in the
\* command table, each argument a separate element of the vector.
C13_ArgumentShapes == \A i \in DOMAIN calls : TableShape(calls[i].argv)

\* ------------------------------------------------------------------------
\* C14
\* ------------------------------------------------------------------------

\* C14: for every argument vector whose process ran and exited, with any
\* status, run_nsc_command raised nothing and returned the process's exit
\* status as its returncode.
C14_NeverThrowsOnExit ==
    \A i \in DOMAIN calls :
        calls[i].outcome = "exited" =>
            /\ ~calls[i].raised
            /\ calls[i].returncode = calls[i].status

\* a process exited with a status other than zero, and the status was returned
C14_Witness ==
    \E i \in DOMAIN calls :
        /\ ExitedNonZero(calls[i])
        /\ ~calls[i].raised
        /\ calls[i].returncode = calls[i].status
        /\ calls[i].returncode # 0

\* ------------------------------------------------------------------------
\* C15
\* ------------------------------------------------------------------------

\* the invocations of add user that request r made for its pair
AddUserCalls(r) ==
    LET argv == AddUserArgv(account_name(r), user_name(r))
    IN  { i \in CallsOf(r) : calls[i].argv = argv }

\* C15: a validated request whose ensure-account step did not fail makes
\* exactly one add user invocation for its pair, whether or not the user
\* exists, and no describe user invocation: the invocation that follows
\* the one that ended the ensure-account step (an existence check that
\* found the account, or the signing-key generation) is add user. When add
\* user exits non-zero (a duplicate rejected by the tool), the request ends
\* with the user-creation error and makes no generate creds and no push
\* invocation.
C15_UserCreationUnconditional ==
    \A i \in DOMAIN calls :
        LET r == calls[i].request
        IN  /\ ~IsDescribeUser(calls[i].argv)
            /\ ( /\ Succeeded(calls[i])
                 /\ IsDescribeAccount(calls[i].argv) \/ IsGenerateSigningKey(calls[i].argv)
                 /\ pc[r] # "create_user" ) =>
                    /\ i + 1 \in DOMAIN calls
                    /\ calls[i + 1].request = r
                    /\ IsAddUser(calls[i + 1].argv)
            /\ IsAddUser(calls[i].argv) =>
                  /\ calls[i].argv = AddUserArgv(account_name(r), user_name(r))
                  /\ AddUserCalls(r) = {i}
                  /\ ExitedNonZero(calls[i]) =>
                        /\ Done(r)
                        /\ response[r].status = 500
                        /\ response[r].message =
                               "Error generating configuration: Failed to create user"
                        /\ \A j \in CallsOf(r) :
                              /\ j <= i
                              /\ ~IsGenerateCreds(calls[j].argv)
                              /\ ~IsPush(calls[j].argv)

\* a pair is provisioned, and the repeated request for the same pair, with
\* a tool that does not fail, has its add user rejected as a duplicate
C15_Witness ==
    /\ ~faulty
    /\ \E r, s \in Requests :
        /\ Earlier(r, s)
        /\ query[r] = query[s]
        /\ response[r].status = 200
        /\ Done(s)
        /\ <<account_name(s), user_name(s)>> \in users
        /\ \E i \in AddUserCalls(s) : ExitedNonZero(calls[i])
        /\ response[s].message =
               "Error generating configuration: Failed to create user"

\* ------------------------------------------------------------------------
\* C16
\* ------------------------------------------------------------------------

\* what the steps of request r that succeeded put into the trust store is
\* there: the account it created, the signing key it generated, the user it
\* created, the credentials file it had written
EffectsKept(r) ==
    \A i \in CallsOf(r) :
        Succeeded(calls[i]) =>
            /\ calls[i].argv = AddAccountArgv(account_name(r)) =>
                   account_name(r) \in accounts
            /\ calls[i].argv = SigningKeyArgv(account_name(r)) =>
                   /\ account_name(r) \in DOMAIN signingKeys
                   /\ signingKeys[account_name(r)] >= 1
            /\ calls[i].argv = AddUserArgv(account_name(r), user_name(r)) =>
                   <<account_name(r), user_name(r)>> \in users
            /\ IsGenerateCreds(calls[i].argv) => creds_path[r] \in DOMAIN files

\* no step takes anything out of the trust store
StoreGrows ==
    /\ accounts \subseteq accounts'
    /\ users \subseteq users'
    /\ pushed \subseteq pushed'
    /\ DOMAIN files \subseteq DOMAIN files'
    /\ \A a \in accounts : signingKeys'[a] >= signingKeys[a]

\* the step in which request r fails changes nothing in the trust store
FailureIsFrame ==
    \A r \in Requests :
        (response[r].status # 500 /\ response'[r].status = 500) =>
            UNCHANGED <<accounts, signingKeys, users, files, pushed>>

\* C16: a request that fails stops and undoes nothing: the step that fails
\* leaves the trust store as it was, the effects of the request's earlier
\* steps (account, signing key, user, credentials file) stay in the store,
\* and over any sequence of requests the set of accounts never shrinks.
C16_NoRollback ==
    /\ [](\A r \in Requests : response[r].status = 500 => EffectsKept(r))
    /\ [][StoreGrows /\ FailureIsFrame]_vars

\* a request created its account, signing key, user and credentials file,
\* failed at push, and all four are in the store
C16_Witness ==
    \E r \in Requests :
        /\ Done(r) /\ response[r].status = 500
        /\ \E i \in CallsOf(r) : IsPush(calls[i].argv) /\ ExitedNonZero(calls[i])
        /\ \E i \in CallsOf(r) :
              calls[i].argv = AddAccountArgv(account_name(r)) /\ Succeeded(calls[i])
        /\ account_name(r) \in accounts
        /\ signingKeys[account_name(r)] >= 1
        /\ <<account_name(r), user_name(r)>> \in users
        /\ creds_path[r] \in DOMAIN files

\* ------------------------------------------------------------------------
\* C17
\* ------------------------------------------------------------------------

\* the existence checks of request r: its invocations of describe account
ExistenceChecks(r) == Made(r, DescribeAccountArgv(account_name(r)))

\* the invocations of add account, and of signing-key generation, of r
AddAccountBy(r) == { i \in CallsOf(r) : IsAddAccount(calls[i].argv) }

SigningKeyBy(r) == { i \in CallsOf(r) : IsGenerateSigningKey(calls[i].argv) }

\* the existence check with which request r began found the account present
HadAccount(r) ==
    \E i \in CallsOf(r) :
        /\ \A j \in CallsOf(r) : i <= j
        /\ calls[i].argv = DescribeAccountArgv(account_name(r))
        /\ Succeeded(calls[i])

\* C17 as stated: a request has one account-existence check, decided by
\* the exit status of describe account; add account is invoked if and only
\* if that check reported the account absent, and neither add account nor
\* signing-key generation is invoked when it reported the account present.
C17_AddIffCheckAbsent ==
    \A r \in Requests :
        (Done(r) /\ Validated(r)) =>
            /\ LackedAccount(r) <=> AddAccountBy(r) # {}
            /\ HadAccount(r) => (AddAccountBy(r) = {} /\ SigningKeyBy(r) = {})

\* C17, amended: a request makes up to two existence checks (do_GET's, and
\* create_account's own when do_GET's reported the account absent), each
\* decided by the exit status of describe account; add account is invoked
\* if and only if both checks were made and both reported the account
\* absent, and neither add account nor signing-key generation is invoked
\* when a check reported the account present.
C17_AddIffBothChecksAbsent ==
    \A r \in Requests :
        (Done(r) /\ Validated(r)) =>
            LET own == CallsOf(r)
                checks == { i \in own : IsDescribeAccount(calls[i].argv) }
                adds == { i \in own : IsAddAccount(calls[i].argv) }
            IN  /\ Cardinality(checks) \in {1, 2}
                /\ \A i \in checks \cup adds : calls[i].argv[4] = account_name(r)
                /\ adds # {} <=>
                      /\ Cardinality(checks) = 2
                      /\ \A i \in checks : ExitedNonZero(calls[i])
                /\ (\E i \in checks : Succeeded(calls[i])) =>
                      /\ adds = {}
                      /\ \A i \in own : ~IsGenerateSigningKey(calls[i].argv)

\* one request found its account absent twice and added it; for another
\* the first check reported the account absent and the second reported it
\* present, and add account was not invoked
C17_Witness ==
    \E r, s \in Requests :
        /\ Done(r) /\ Validated(r) /\ Done(s) /\ Validated(s)
        /\ Cardinality(ExistenceChecks(r)) = 2
        /\ \A i \in ExistenceChecks(r) : ExitedNonZero(calls[i])
        /\ AddAccountBy(r) # {}
        /\ LackedAccount(s)
        /\ \E i \in ExistenceChecks(s) : Succeeded(calls[i])
        /\ AddAccountBy(s) = {}

\* ------------------------------------------------------------------------
\* C18
\* ------------------------------------------------------------------------

\* requests whose names hold the character that CredsPath joins them with;
\* do_GET takes the names as they come
UnderscoreQueries ==
    { [account |-> "a_b", user |-> "c"],
      [account |-> "a", user |-> "b_c"] }

NextNames ==
    \/ \E r \in Requests, q \in UnderscoreQueries : Connect(r, q)
    \/ \E r \in Requests : do_GET(r)
    \/ \E r \in Requests : do_GET_account_exists(r)
    \/ \E r \in Requests : create_account(r)
    \/ \E r \in Requests : add_account(r)
    \/ \E r \in Requests : generate_signing_key(r)
    \/ \E r \in Requests : create_user(r)
    \/ \E r \in Requests : generate_creds(r)
    \/ \E r \in Requests : push_account(r)
    \/ \E r \in Requests : read_creds(r)

\* the server with requests drawn from UnderscoreQueries
SpecNames == Init /\ [][NextNames]_vars

\* C18: two requests whose (account, user) pairs differ never have the
\* same credentials path, so neither writes nor serves the other's file.
C18_CredsPathInjective ==
    \A r, s \in Requests :
        (creds_path[r] # "" /\ creds_path[r] = creds_path[s]) =>
            <<account_name(r), user_name(r)>> = <<account_name(s), user_name(s)>>

====
